---- MODULE Spec2Model ----
(***************************************************************************)
(* Model of src/main.rs of rustyrabbit: the capture thread, the frame      *)
(* channel (std::sync::mpsc::channel behind Arc<Mutex<Receiver>>), the     *)
(* render closure driven by the UI timer, the calibration callback and     *)
(* the chessboard calibration thread, and the shutdown path of main.       *)
(*                                                                         *)
(* A frame is modelled by its capture sequence number (1, 2, ...); the     *)
(* pixel data plays no part in the control flow except through the         *)
(* verdict of find_chessboard_corners, which is an input of the step that  *)
(* processes the frame (each frame is processed at most once).             *)
(***************************************************************************)
EXTENDS Naturals, Sequences, FiniteSets

\* ---- program constants ----
REQUIRED_FRAMES == 10
ESC_KEY == 27

\* ---- bounds of the model ----
\* Frames the camera delivers before shutdown: few where several calibration
\* threads run (Spec), enough to fill a sample set where one runs (SpecCalib).
MaxFrames == 3
CalibFrames == 11
MaxQueue == 2
MaxSessions == 2
MaxAfterStop == 2

VARIABLES
    frame_chan,    \* frames sent on frame_sender and not yet received, oldest first
    delivered,     \* sequence number of the last frame a receiver took (0: none)
    exit_chan,     \* number of () messages pending on the exit channel
    frame_bgr,     \* sequence number of the last frame the camera thread read (0: none)
    camPc,         \* position of the camera thread
    camResult,     \* value the camera thread returned: "none" while it runs
    afterStop,     \* reads and sends of the camera thread since the stop signal was sent
    mainPc,        \* position of main after the window was set up
    mainResult,    \* value main returned: "none" while it runs
    released,      \* "Camera stopped and resources released" was printed
    uiPc,          \* "idle", or "render" while the render closure is being called
    image,         \* frame shown by the last render call (0: Image::default())
    status,        \* last "Captured frames: n" set on the window (0: never set)
    mutex,         \* holder of the Mutex around frame_receiver (0: free, else a session)
    sess           \* the calibration threads spawned so far

vars == <<frame_chan, delivered, exit_chan, frame_bgr, camPc, camResult, afterStop, mainPc,
          mainResult, released, uiPc, image, status, mutex, sess>>

camVars == <<frame_chan, delivered, exit_chan, frame_bgr, camPc, camResult, afterStop>>
mainVars == <<mainPc, mainResult, released>>
uiVars == <<uiPc, image>>
sessVars == <<status, mutex, sess>>

Sessions == 1..MaxSessions
\* What wait_key(1) returns: Esc, or 0 for anything else (no key, another key).
Keys == {0, ESC_KEY}

\* A thread that was not spawned yet. The fields after frame_data record what
\* happened to the thread: the verdicts find_chessboard_corners gave it, whether
\* Esc ended its loop, the calls of calibrate_camera and the samples passed.
NoSession ==
    [pc |-> "none", calibration_type |-> "none", captured_frames |-> 0,
     object_points |-> <<>>, image_points |-> <<>>, frame_data |-> 0,
     verdicts |-> {}, cancelled |-> FALSE, solver_calls |-> 0, solver_samples |-> 0]

\* NewChessboard as it would be if the sample vectors and the counter were
\* shared by the calibration threads instead of being locals of each.
NewChessboard_KeepsSamples ==
    LET prev == CHOOSE s \in Sessions :
                    \A r \in Sessions :
                        Len(sess[r].image_points) <= Len(sess[s].image_points)
    IN  [NoSession EXCEPT !.pc = "loop", !.calibration_type = "ChessBoard",
                          !.captured_frames = sess[prev].captured_frames,
                          !.object_points = sess[prev].object_points,
                          !.image_points = sess[prev].image_points]

\* The locals of start_chessboard_calibration before its loop.
NewChessboard ==
    [NoSession EXCEPT !.pc = "loop", !.calibration_type = "ChessBoard"]

\* The process still runs: main has not returned.
Running == mainPc # "done"

\* The stop signal was sent on the exit channel.
stopSent == mainPc = "join" \/ (mainPc = "done" /\ mainResult # "ErrSend")

\* A calibration thread that was spawned and has not returned.
Alive(s) == sess[s].pc \notin {"none", "completed", "failed"}

\* try_recv as it would be if the channel handed out its newest message.
TryRecv_Newest(chan) ==
    [frame |-> chan[Len(chan)], rest |-> SubSeq(chan, 1, Len(chan) - 1)]

\* try_recv as it would be if the message stayed in the channel.
TryRecv_Peek(chan) ==
    [frame |-> Head(chan), rest |-> chan]

\* Receiver::try_recv on a channel that holds a frame: the oldest frame is
\* moved out to the caller, the others stay.
TryRecv(chan) ==
    [frame |-> Head(chan), rest |-> Tail(chan)]

Init ==
    /\ frame_chan = <<>>
    /\ delivered = 0
    /\ exit_chan = 0
    /\ frame_bgr = 0
    /\ camPc = "poll"
    /\ camResult = "none"
    /\ afterStop = [reads |-> 0, sends |-> 0]
    /\ mainPc = "run"
    /\ mainResult = "none"
    /\ released = FALSE
    /\ uiPc = "idle"
    /\ image = 0
    /\ status = 0
    /\ mutex = 0
    /\ sess = [s \in Sessions |-> NoSession]

\* ------------------------------------------------------------------------
\* The camera thread (start_camera_thread)
\* ------------------------------------------------------------------------

\* The camera hands over a frame: always once the stop signal is out (so that
\* the bounds never keep the thread inside its blocking read), before that
\* within the bounds of the model.
CameraDelivers(frames) ==
    \/ frame_bgr < frames /\ Len(frame_chan) < MaxQueue
    \/ stopSent /\ afterStop.reads < MaxAfterStop

\* CamPoll as it would be if the loop never looked at the exit channel.
CamPoll_IgnoresStop ==
    /\ Running
    /\ camPc = "poll"
    /\ camPc' = "read"
    /\ UNCHANGED <<frame_chan, delivered, exit_chan, frame_bgr, camResult, afterStop>>
    /\ UNCHANGED <<mainVars, uiVars, sessVars>>

\* if exit_receiver.try_recv().is_ok() { break } else { ... }
CamPoll ==
    /\ Running
    /\ camPc = "poll"
    /\ IF exit_chan > 0
       THEN /\ exit_chan' = exit_chan - 1
            /\ camPc' = "exited"
            /\ camResult' = "Ok"
       ELSE /\ camPc' = "read"
            /\ UNCHANGED <<exit_chan, camResult>>
    /\ UNCHANGED <<frame_chan, delivered, frame_bgr, afterStop>>
    /\ UNCHANGED <<mainVars, uiVars, sessVars>>

\* camera.read(&mut frame_bgr)?; cvt_color(...)?
CamRead(frames) ==
    /\ Running
    /\ camPc = "read"
    /\ CameraDelivers(frames)
    /\ \E ok \in BOOLEAN :
         IF ok
         THEN /\ frame_bgr' = frame_bgr + 1
              /\ camPc' = "send"
              /\ UNCHANGED camResult
         ELSE /\ camPc' = "exited"
              /\ camResult' = "ErrRead"
              /\ UNCHANGED frame_bgr
    /\ afterStop' = IF stopSent THEN [afterStop EXCEPT !.reads = @ + 1] ELSE afterStop
    /\ UNCHANGED <<frame_chan, delivered, exit_chan>>
    /\ UNCHANGED <<mainVars, uiVars, sessVars>>

\* frame_sender.send(frame_rgba.data_bytes()?.to_vec())?
CamSend ==
    /\ Running
    /\ camPc = "send"
    /\ frame_chan' = Append(frame_chan, frame_bgr)
    /\ camPc' = "write"
    /\ afterStop' = IF stopSent THEN [afterStop EXCEPT !.sends = @ + 1] ELSE afterStop
    /\ UNCHANGED <<delivered, exit_chan, frame_bgr, camResult>>
    /\ UNCHANGED <<mainVars, uiVars, sessVars>>

\* if frame_bgr.size()?.width > 0 { out.write(&frame_bgr)?; } sleep(10 ms)
CamWrite ==
    /\ Running
    /\ camPc = "write"
    /\ \E width \in {0, 1}, ok \in BOOLEAN :
         IF width > 0 /\ ~ok
         THEN /\ camPc' = "exited"
              /\ camResult' = "ErrWrite"
         ELSE /\ camPc' = "poll"
              /\ UNCHANGED camResult
    /\ UNCHANGED <<frame_chan, delivered, exit_chan, frame_bgr, afterStop>>
    /\ UNCHANGED <<mainVars, uiVars, sessVars>>

CamThread(frames) == CamPoll \/ CamRead(frames) \/ CamSend \/ CamWrite

\* ------------------------------------------------------------------------
\* The UI thread: the timer and the render closure
\* ------------------------------------------------------------------------

\* The timer fires and the window asks render_image for the next image.
Tick ==
    /\ mainPc = "run"
    /\ uiPc = "idle"
    /\ uiPc' = "render"
    /\ UNCHANGED image
    /\ UNCHANGED <<camVars, mainVars, sessVars>>

\* render: lock the receiver, try_recv, build the image (or Image::default()).
Render ==
    /\ mainPc = "run"
    /\ uiPc = "render"
    /\ mutex = 0
    /\ IF frame_chan # <<>>
       THEN /\ image' = TryRecv(frame_chan).frame
            /\ frame_chan' = TryRecv(frame_chan).rest
            /\ delivered' = TryRecv(frame_chan).frame
       ELSE /\ image' = 0
            /\ UNCHANGED <<frame_chan, delivered>>
    /\ uiPc' = "idle"
    /\ UNCHANGED <<exit_chan, frame_bgr, camPc, camResult, afterStop>>
    /\ UNCHANGED <<mainVars, sessVars>>

\* ------------------------------------------------------------------------
\* The calibration callback and the calibration threads
\* ------------------------------------------------------------------------

\* The thread body thread::spawn runs for a calibration type (0, 1, 2).
SpawnedThread(selected_calibration) ==
    CASE selected_calibration = 0 -> NewChessboard
      [] selected_calibration = 1 ->
            [NoSession EXCEPT !.pc = "print", !.calibration_type = "CircleGrid"]
      [] OTHER ->
            [NoSession EXCEPT !.pc = "print", !.calibration_type = "RabbitPAruco"]

\* on_calibration_wrapper_callback: an unknown type returns, any other type
\* spawns a thread, whatever the threads spawned before are doing. `threads`
\* bounds the threads the user starts in a run.
StartCalibration(threads) ==
    /\ mainPc = "run"
    /\ uiPc = "idle"
    /\ \E selected_calibration \in 0..3 :
         IF selected_calibration \notin {0, 1, 2}
         THEN UNCHANGED sess
         ELSE \E s \in 1..threads :
                /\ sess[s].pc = "none"
                /\ \A r \in Sessions : r < s => sess[r].pc # "none"
                /\ sess' = [sess EXCEPT ![s] = SpawnedThread(selected_calibration)]
    /\ UNCHANGED <<status, mutex>>
    /\ UNCHANGED <<camVars, mainVars, uiVars>>

\* start_circle_grid_calibration, start_aruco_calibration: print and return Ok.
SessStub(s) ==
    /\ Running
    /\ sess[s].pc = "print"
    /\ sess' = [sess EXCEPT ![s].pc = "completed"]
    /\ UNCHANGED <<status, mutex>>
    /\ UNCHANGED <<camVars, mainVars, uiVars>>

\* LoopCondition as it would be with <= for <.
LoopCondition_OffByOne(r) ==
    r.captured_frames <= REQUIRED_FRAMES

\* while captured_frames < REQUIRED_FRAMES
LoopCondition(r) ==
    r.captured_frames < REQUIRED_FRAMES

\* while captured_frames < REQUIRED_FRAMES {
\*     if let Ok(frame_data) = frame_receiver.lock().unwrap().try_recv() {
\* The loop head: leave the loop for calibrate_camera, or lock the receiver
\* (waiting while it is held) and try_recv. The guard of the lock is a
\* temporary of the if-let: it lives until the end of the if-let statement,
\* through both of its branches.
SessLoop(s) ==
    /\ Running
    /\ sess[s].pc = "loop"
    /\ IF LoopCondition(sess[s])
       THEN /\ mutex = 0
            /\ mutex' = s
            /\ IF frame_chan # <<>>
               THEN /\ sess' = [sess EXCEPT ![s].pc = "detect",
                                            ![s].frame_data = TryRecv(frame_chan).frame]
                    /\ frame_chan' = TryRecv(frame_chan).rest
                    /\ delivered' = TryRecv(frame_chan).frame
               ELSE /\ sess' = [sess EXCEPT ![s].pc = "sleep"]
                    /\ UNCHANGED <<frame_chan, delivered>>
       ELSE /\ sess' = [sess EXCEPT ![s].pc = "solve"]
            /\ UNCHANGED <<mutex, frame_chan, delivered>>
    /\ UNCHANGED status
    /\ UNCHANGED <<exit_chan, frame_bgr, camPc, camResult, afterStop>>
    /\ UNCHANGED <<mainVars, uiVars>>

\* Accept as it would be without the push to object_points.
Accept_SkipsObjectPoints(r, found) ==
    IF found
    THEN [r EXCEPT !.image_points = Append(@, "corners"),
                   !.captured_frames = @ + 1,
                   !.verdicts = @ \cup {TRUE}]
    ELSE [r EXCEPT !.verdicts = @ \cup {FALSE}]

\* Accept as it would be if the sample were pushed without testing `found`.
Accept_Unchecked(r, found) ==
    [r EXCEPT !.image_points = Append(@, "corners"),
              !.object_points = Append(@, "object_point_set"),
              !.captured_frames = @ + 1,
              !.verdicts = @ \cup {found}]

\* The locals after `if found { ...push, push, captured_frames += 1... }`.
Accept(r, found) ==
    IF found
    THEN [r EXCEPT !.image_points = Append(@, "corners"),
                   !.object_points = Append(@, "object_point_set"),
                   !.captured_frames = @ + 1,
                   !.verdicts = @ \cup {TRUE}]
    ELSE [r EXCEPT !.verdicts = @ \cup {FALSE}]

\* Where the thread goes after wait_key(1): `break` on Esc, else the loop head.
AfterKey(key) ==
    IF key = ESC_KEY THEN "solve" ELSE "loop"

\* The body of the if-let for a received frame: find_chessboard_corners, the
\* push of the sample, set_status, imshow, wait_key. Any `?` of it may return
\* an error: before the sample is pushed ("detect") or after it ("show").
SessProcess(s) ==
    /\ Running
    /\ sess[s].pc = "detect"
    /\ \E found \in BOOLEAN, key \in Keys, err \in {"none", "detect", "show"} :
         LET r == sess[s]
             a == Accept(r, found)
         IN  CASE err = "detect" ->
                    /\ sess' = [sess EXCEPT ![s] = [r EXCEPT !.pc = "failed", !.frame_data = 0]]
                    /\ UNCHANGED status
               [] err = "show" ->
                    /\ sess' = [sess EXCEPT ![s] = [a EXCEPT !.pc = "failed", !.frame_data = 0]]
                    /\ status' = IF found THEN a.captured_frames ELSE status
               [] OTHER ->
                    /\ sess' = [sess EXCEPT ![s] =
                                  [a EXCEPT !.pc = AfterKey(key), !.frame_data = 0,
                                            !.cancelled = (key = ESC_KEY)]]
                    /\ status' = IF found THEN a.captured_frames ELSE status
    /\ mutex' = 0
    /\ UNCHANGED <<camVars, mainVars, uiVars>>

\* } else { thread::sleep(10 ms) }: the guard is dropped after the sleep.
SessWake(s) ==
    /\ Running
    /\ sess[s].pc = "sleep"
    /\ sess' = [sess EXCEPT ![s].pc = "loop"]
    /\ mutex' = 0
    /\ UNCHANGED status
    /\ UNCHANGED <<camVars, mainVars, uiVars>>

\* SessSolve as it would be if a failed calibration signalled the exit channel
\* of the camera thread.
SessSolve_StopsCapture(s) ==
    /\ Running
    /\ sess[s].pc = "solve"
    /\ \E ok \in BOOLEAN :
         /\ sess' = [sess EXCEPT ![s].pc = IF ok THEN "completed" ELSE "failed",
                                 ![s].solver_calls = @ + 1,
                                 ![s].solver_samples = Len(sess[s].image_points)]
         /\ exit_chan' = IF ok THEN exit_chan ELSE exit_chan + 1
    /\ UNCHANGED <<status, mutex>>
    /\ UNCHANGED <<frame_chan, delivered, frame_bgr, camPc, camResult, afterStop>>
    /\ UNCHANGED <<mainVars, uiVars>>

\* calibrate_camera(&object_points, &image_points, ...)?; Ok(())
SessSolve(s) ==
    /\ Running
    /\ sess[s].pc = "solve"
    /\ \E ok \in BOOLEAN :
         sess' = [sess EXCEPT ![s].pc = IF ok THEN "completed" ELSE "failed",
                              ![s].solver_calls = @ + 1,
                              ![s].solver_samples = Len(sess[s].image_points)]
    /\ UNCHANGED <<status, mutex>>
    /\ UNCHANGED <<camVars, mainVars, uiVars>>

\* ------------------------------------------------------------------------
\* main after window.run()
\* ------------------------------------------------------------------------

\* window.run()? returns: the window was closed.
WindowClose ==
    /\ mainPc = "run"
    /\ uiPc = "idle"
    /\ mainPc' = "send_exit"
    /\ UNCHANGED <<mainResult, released>>
    /\ UNCHANGED <<camVars, uiVars, sessVars>>

\* exit_sender.send(())?: an error once the camera thread dropped exit_receiver.
SendExit ==
    /\ mainPc = "send_exit"
    /\ IF camPc = "exited"
       THEN /\ mainPc' = "done"
            /\ mainResult' = "ErrSend"
            /\ UNCHANGED exit_chan
       ELSE /\ mainPc' = "join"
            /\ exit_chan' = exit_chan + 1
            /\ UNCHANGED mainResult
    /\ UNCHANGED released
    /\ UNCHANGED <<frame_chan, delivered, frame_bgr, camPc, camResult, afterStop>>
    /\ UNCHANGED <<uiVars, sessVars>>

\* Join as it would be if main did not wait for the camera thread.
Join_NoWait ==
    /\ mainPc = "join"
    /\ mainPc' = "done"
    /\ IF camResult \in {"none", "Ok"}
       THEN /\ released' = TRUE
            /\ mainResult' = "Ok"
       ELSE /\ mainResult' = camResult
            /\ UNCHANGED released
    /\ UNCHANGED <<camVars, uiVars, sessVars>>

\* camera_thread.join().unwrap()?; println!("Camera stopped and resources released")
Join ==
    /\ mainPc = "join"
    /\ camPc = "exited"
    /\ mainPc' = "done"
    /\ IF camResult = "Ok"
       THEN /\ released' = TRUE
            /\ mainResult' = "Ok"
       ELSE /\ mainResult' = camResult
            /\ UNCHANGED released
    /\ UNCHANGED <<camVars, uiVars, sessVars>>

\* The program with the camera delivering `frames` frames before shutdown and
\* the user starting up to `threads` calibrations.
Step(frames, threads) ==
    \/ CamPoll
    \/ CamRead(frames)
    \/ CamSend
    \/ CamWrite
    \/ Tick
    \/ Render
    \/ StartCalibration(threads)
    \/ \E s \in Sessions : SessStub(s)
    \/ \E s \in Sessions : SessLoop(s)
    \/ \E s \in Sessions : SessProcess(s)
    \/ \E s \in Sessions : SessWake(s)
    \/ \E s \in Sessions : SessSolve(s)
    \/ WindowClose
    \/ SendExit
    \/ Join

Next == Step(MaxFrames, MaxSessions)

NextCalib == Step(CalibFrames, 1)

\* Several calibration threads, few frames.
Spec == Init /\ [][Next]_vars

\* One calibration thread, enough frames to fill its sample set.
SpecCalib == Init /\ [][NextCalib]_vars

\* Shutdown: the operating system schedules the camera thread and the camera
\* hands over the frame it is asked for.
NextStop == Step(MaxFrames, 1)

SpecStop == Init /\ [][NextStop]_vars /\ WF_vars(CamThread(MaxFrames))

\* Two calibration threads, few frames.
NextPair == Step(MaxFrames, 2)

SpecPair == Init /\ [][NextPair]_vars

\* camera.read on a camera that always has a next frame. The frame numbers
\* wrap, so that capture without end has finitely many states.
CamReadEndless ==
    /\ Running
    /\ camPc = "read"
    /\ Len(frame_chan) < MaxQueue
    /\ frame_bgr' = (frame_bgr % MaxFrames) + 1
    /\ camPc' = "send"
    /\ UNCHANGED <<frame_chan, delivered, exit_chan, camResult, afterStop>>
    /\ UNCHANGED <<mainVars, uiVars, sessVars>>

\* Nothing disturbs capture and calibration: no camera or writer error, the
\* detector finds the board in every frame, Esc is not pressed, and no call
\* before calibrate_camera fails.
Undisturbed ==
    /\ camPc # "exited"
    /\ \A s \in Sessions :
         /\ ~sess[s].cancelled
         /\ FALSE \notin sess[s].verdicts
         /\ sess[s].pc = "failed" => sess[s].solver_calls > 0

CamThreadEndless == (CamPoll \/ CamReadEndless \/ CamSend \/ CamWrite) /\ Undisturbed'

UiThread == Tick \/ Render

SessThread(s) ==
    (SessStub(s) \/ SessLoop(s) \/ SessProcess(s) \/ SessWake(s) \/ SessSolve(s))
        /\ Undisturbed'

\* The window stays open, the camera never runs dry, one calibration thread.
NextLive ==
    \/ CamThreadEndless
    \/ UiThread
    \/ StartCalibration(1)
    \/ SessThread(1)

\* The scheduler runs every thread that can take a step: weak fairness of
\* the camera thread, of the UI thread and of the calibration thread.
SpecLive ==
    /\ Init
    /\ [][NextLive]_vars
    /\ WF_vars(CamThreadEndless)
    /\ WF_vars(UiThread)
    /\ WF_vars(SessThread(1))

\* ------------------------------------------------------------------------
\* Properties
\* ------------------------------------------------------------------------

Chessboards == {s \in Sessions : sess[s].calibration_type = "ChessBoard"}

\* The states of a calibration session, read off the position of its thread.
Capturing(s) == sess[s].pc \in {"loop", "detect", "sleep"}
Solving(s) == sess[s].pc = "solve"
Completed(s) == sess[s].pc = "completed"
Failed(s) == sess[s].pc = "failed"

\* C1: a render call that finds frames in the channel shows the frame
\* published last, never an older one while a newer one is in the channel.
C1_RenderShowsNewest ==
    [][(uiPc = "render" /\ uiPc' = "idle" /\ frame_chan # <<>>)
          => image' = frame_chan[Len(frame_chan)]]_vars

\* C2: the frame channel never holds more than one undelivered frame (a
\* publish replaces the frame that was not taken yet).
C2_AtMostOneUndelivered ==
    Len(frame_chan) <= 1

\* C3: once the stop signal is sent the camera thread reads and publishes at
\* most one more frame, and it eventually leaves its loop.
C3_StopsWithinOneIteration ==
    /\ [](afterStop.reads <= 1 /\ afterStop.sends <= 1)
    /\ (stopSent ~> camPc = "exited")

\* The stop signal found the thread past its poll: it published one more
\* frame, polled, and returned Ok.
C3_Witness ==
    /\ stopSent
    /\ afterStop.sends = 1
    /\ camPc = "exited"
    /\ camResult = "Ok"

\* C4: a session cancelled (Esc) with fewer than the required samples never
\* has the solver invoked.
C4_CancelledNeverSolves ==
    \A s \in Chessboards :
        (sess[s].cancelled /\ sess[s].captured_frames < REQUIRED_FRAMES)
            => sess[s].solver_calls = 0

\* C5: at most one calibration session thread is alive at any time.
C5_AtMostOneSessionAlive ==
    Cardinality({s \in Sessions : Alive(s)}) <= 1

\* C6: a render call never has to wait for a calibration session: while the
\* render closure is being called, no session that received a frame and is
\* processing it holds the lock around the receiver.
C6_RenderNeverWaits ==
    uiPc = "render" => \A s \in Sessions : ~(sess[s].pc = "detect" /\ mutex = s)

\* C7: a session never holds more than the required samples; without a cancel
\* nor a failed OpenCV call it leaves Capturing only for Solving and only with
\* exactly the required samples, Solving only for Completed (or Failed, when
\* the solver fails), and it invokes the solver once, with exactly the
\* required samples.
C7_FullSessionSolvesOnce ==
    /\ [](\A s \in Chessboards :
            LET r == sess[s]
            IN  /\ r.captured_frames <= REQUIRED_FRAMES
                /\ Len(r.image_points) <= REQUIRED_FRAMES
                /\ r.solver_calls <= 1
                /\ Capturing(s) => r.solver_calls = 0
                /\ Completed(s) => r.solver_calls = 1
                /\ ((Solving(s) \/ r.solver_calls > 0) /\ ~r.cancelled)
                      => /\ r.captured_frames = REQUIRED_FRAMES
                         /\ Len(r.image_points) = REQUIRED_FRAMES
                         /\ Len(r.object_points) = REQUIRED_FRAMES
                /\ (r.solver_calls > 0 /\ ~r.cancelled)
                      => r.solver_samples = REQUIRED_FRAMES)
    /\ [][\A s \in Chessboards :
            /\ (Capturing(s) /\ ~Capturing(s)') => (Solving(s)' \/ Failed(s)')
            /\ (Solving(s) /\ ~Solving(s)') => (Completed(s)' \/ Failed(s)')
            /\ (Completed(s) \/ Failed(s)) => sess'[s] = sess[s]]_vars

\* Ten frames, each accepted, no Esc: the solver ran once on ten samples and
\* the thread returned Ok.
C7_Witness ==
    \E s \in Chessboards :
        /\ Completed(s)
        /\ sess[s].verdicts = {TRUE}
        /\ ~sess[s].cancelled
        /\ sess[s].solver_calls = 1
        /\ sess[s].solver_samples = REQUIRED_FRAMES

\* C8: a session whose frames were all rejected by the detector, not cancelled
\* (and with no failed OpenCV call), is in Capturing with no sample and the
\* solver not invoked.
C8_AllRejectedStaysCapturing ==
    \A s \in Chessboards :
        (TRUE \notin sess[s].verdicts /\ ~sess[s].cancelled /\ ~Failed(s))
            => /\ Capturing(s)
               /\ sess[s].captured_frames = 0
               /\ sess[s].image_points = <<>>
               /\ sess[s].object_points = <<>>
               /\ sess[s].solver_calls = 0

\* The session took every frame the camera delivered, the detector rejected
\* each, and the thread is back at the head of its loop.
C8_Witness ==
    \E s \in Chessboards :
        /\ sess[s].verdicts = {FALSE}
        /\ ~sess[s].cancelled
        /\ sess[s].pc = "loop"
        /\ frame_bgr = CalibFrames
        /\ frame_chan = <<>>
        /\ image = 0

\* C9: the camera thread never ends because a write to the video sink failed.
C9_SinkFailureKeepsCapturing ==
    ~(camPc = "exited" /\ camResult = "ErrWrite")

\* C10: when the camera thread ended on a failed read, main ends with that
\* thread's error, received at the join.
C10_ReadErrorReachesJoin ==
    (mainPc = "done" /\ camResult = "ErrRead") => mainResult = "ErrRead"

\* C11: a render call that finds the channel empty returns the image the
\* previous call returned (the default image only if none was rendered yet).
C11_EmptyTickKeepsImage ==
    [][(uiPc = "render" /\ uiPc' = "idle" /\ frame_chan = <<>>) => image' = image]_vars

\* C12: a calibration thread starts with no sample and a count of 0, whatever
\* the threads before it left, and a thread that accepted no frame of its own
\* holds no sample and passes none to the solver.
C12_NewSessionStartsEmpty ==
    /\ [][\A s \in Sessions :
            (sess[s].pc = "none" /\ sess'[s].pc = "loop")
                => /\ sess'[s].captured_frames = 0
                   /\ sess'[s].object_points = <<>>
                   /\ sess'[s].image_points = <<>>]_vars
    /\ [](\A s \in Chessboards :
            TRUE \notin sess[s].verdicts
                => /\ sess[s].captured_frames = 0
                   /\ sess[s].object_points = <<>>
                   /\ sess[s].image_points = <<>>
                   /\ sess[s].solver_samples = 0)

\* The first session was cancelled holding a sample; the second, started
\* after it, accepted nothing and its solver was given no sample.
C12_Witness ==
    /\ sess[1].calibration_type = "ChessBoard"
    /\ sess[1].cancelled
    /\ sess[1].solver_calls = 1
    /\ sess[1].solver_samples = 1
    /\ sess[2].calibration_type = "ChessBoard"
    /\ sess[2].verdicts = {FALSE}
    /\ sess[2].solver_calls = 1
    /\ sess[2].solver_samples = 0

\* C13: a step in which a session is cancelled or fails changes nothing of the
\* camera thread (its position, its result, the exit channel, its frame), and
\* the camera thread ends only on an error of its own or on the stop signal of
\* main.
C13_SessionEndLeavesCapture ==
    /\ [][(\E s \in Sessions :
              \/ sess'[s].cancelled /\ ~sess[s].cancelled
              \/ Failed(s)' /\ ~Failed(s))
            => UNCHANGED <<camPc, camResult, exit_chan, frame_bgr, afterStop>>]_vars
    /\ [](/\ exit_chan > 0 => stopSent
          /\ camPc = "exited"
               => \/ camResult \in {"ErrRead", "ErrWrite"}
                  \/ camResult = "Ok" /\ stopSent)

\* A session was cancelled and failed; the camera thread went on to publish
\* the last frame of the run and is still running.
C13_Witness ==
    \E s \in Chessboards :
        /\ sess[s].cancelled
        /\ Failed(s)
        /\ mainPc = "run"
        /\ camPc = "write"
        /\ camResult = "none"
        /\ frame_bgr = MaxFrames
        /\ Len(frame_chan) = MaxQueue

\* C14: main joins only after sending the stop signal, and the release is
\* reported only at the join, after the camera thread has ended.
C14_ReleaseAfterThreadExit ==
    /\ [](released => (camPc = "exited" /\ camResult = "Ok" /\ mainPc = "done"))
    /\ [][/\ (mainPc' = "join" /\ mainPc # "join")
               => (mainPc = "send_exit" /\ exit_chan' = exit_chan + 1)
          /\ (released' /\ ~released)
               => (mainPc = "join" /\ camPc = "exited")]_vars

\* The stop signal was sent, the camera thread ended, main joined it and
\* reported the release.
C14_Witness ==
    /\ released
    /\ mainResult = "Ok"
    /\ exit_chan = 0

C16_ReceivedInCaptureOrder ==
    /\ [](/\ \A i \in 1..Len(frame_chan) :
                /\ frame_chan[i] <= frame_bgr
                /\ \A j \in 1..Len(frame_chan) : i < j => frame_chan[i] < frame_chan[j]
          /\ image <= delivered
          /\ \A s \in Sessions : sess[s].frame_data <= delivered)
    /\ [][/\ delivered' # delivered
               => /\ frame_chan # <<>>
                  /\ delivered' = Head(frame_chan)
                  /\ delivered' > delivered
                  /\ \A i \in 1..Len(frame_chan') : frame_chan'[i] > delivered'
          /\ (image' # image /\ image' # 0) => image' = delivered' /\ image' > delivered
          /\ \A s \in Sessions :
               /\ (sess'[s].frame_data # sess[s].frame_data /\ sess'[s].frame_data # 0)
                     => sess'[s].frame_data = delivered' /\ sess'[s].frame_data > delivered
               /\ sess'[s].image_points # sess[s].image_points
                     => /\ sess[s].frame_data = delivered
                        /\ sess'[s].frame_data = 0
                        /\ delivered' = delivered]_vars

\* Render took frame 2 between the frames 1 and 3 of a session that accepted
\* frame 1: the session skipped a frame.
C16_Witness ==
    /\ image = 2
    /\ \E s \in Chessboards :
         /\ sess[s].frame_data = 3
         /\ sess[s].captured_frames = 1
         /\ sess[s].verdicts = {TRUE}

\* C18: a published frame is received by at most one consumer. A receive
\* removes the frame from the channel and hands it to exactly one of the
\* render closure and the calibration threads; no frame is in the channel
\* twice or again after it was received, and no two consumers hold the same
\* frame.
C18_FrameHasOneReceiver ==
    /\ [](/\ \A i \in 1..Len(frame_chan) :
                /\ frame_chan[i] > delivered
                /\ frame_chan[i] # image
                /\ \A s \in Sessions : frame_chan[i] # sess[s].frame_data
                /\ \A j \in 1..Len(frame_chan) : i # j => frame_chan[i] # frame_chan[j]
          /\ \A s \in Sessions :
                sess[s].frame_data # 0
                   => /\ sess[s].frame_data # image
                      /\ \A r \in Sessions \ {s} : sess[r].frame_data # sess[s].frame_data)
    /\ [][delivered' # delivered
             => /\ frame_chan' = Tail(frame_chan)
                /\ Cardinality({s \in Sessions : sess'[s].frame_data = delivered'})
                     + (IF image' = delivered' THEN 1 ELSE 0) = 1
                /\ \/ image' = delivered' /\ UNCHANGED sess
                   \/ image' = image /\ sess' # sess]_vars

\* Render holds frame 1, a calibration thread holds frame 2, frame 3 waits in
\* the channel.
C18_Witness ==
    /\ image = 1
    /\ frame_chan = <<3>>
    /\ \E s \in Chessboards : sess[s].frame_data = 2 /\ sess[s].pc = "detect"

\* C17: every accepted frame is followed by a report of the updated count,
\* which is the length of the reporting session's sample set; the reports
\* read 1, 2, ...: each is one greater than the one before it, or is the
\* first report of a session that runs alone.
C17_ReportsCountUpByOne ==
    [][\A s \in Sessions :
          sess'[s].captured_frames # sess[s].captured_frames
             => /\ status' = Len(sess'[s].image_points)
                /\ \/ status' = status + 1
                   \/ status' = 1 /\ \A r \in Sessions \ {s} : ~Alive(r)]_vars

\* C19: with endless capture, a detector that accepts every frame and no
\* cancel, weak fairness of the camera thread, the UI thread and the
\* calibration thread suffices for a started chessboard session to collect
\* its samples and reach Solving, although render calls receive from the
\* same channel.
C19_StartedSessionSolves ==
    (1 \in Chessboards /\ Capturing(1)) ~> Solving(1)

====
